---- MODULE Spec2Model ----
(***************************************************************************)
(* A model of app/main.py: the shell's read-eval loop, the redirection     *)
(* handling of CommandRegistry.execute, the built-in handlers, external    *)
(* command execution, and the readline completer CommandCompleter.         *)
(*                                                                         *)
(* A raw input line is a sequence of whitespace-separated words; a word    *)
(* that opens a quote and never closes it makes shlex.split raise.  A file *)
(* is a sequence of text lines, or Absent.  A stream target is either the  *)
(* inherited stream or an open file handle [path, mode].                   *)
(***************************************************************************)
EXTENDS Integers, Sequences, FiniteSets, TLC

VARIABLES
    pc,          \* main(): "reading" (input), "dispatching" (registry.execute), "exited"
    line,        \* command_input handed to registry.execute (<<>> while reading)
    fs,          \* the regular files that exist: path -> its text lines
    cwd,         \* the process working directory (os.getcwd / os.chdir)
    handles,     \* file objects opened by execute and not yet closed
    exitStatus,  \* status the process ended with (NotExited while running)
    last,        \* what the last registry.execute did (observation record)
    comp,        \* CommandCompleter fields: matches, last_text, match_index, tab_count
    compOut,     \* what the last completer call returned and printed
    environ,     \* os.environ: PATH is the variable's value, None when it is unset
    resolved,    \* the last find_executable call: its argument and its result
    lcp          \* a longest_common_prefix call: words, prefix, loop position

vars == <<pc, line, fs, cwd, handles, exitStatus, last, comp, compOut, environ, resolved, lcp>>

shellVars == <<pc, line, fs, cwd, handles, exitStatus, last>>

compVars == <<comp, compOut>>

\* what the shell loop and the completer leave alone
auxVars == <<environ, resolved, lcp>>

-----------------------------------------------------------------------------
(* Bounds of the model *)

\* most tokens following the command words of a line (ParseSpec)
MaxTail == 4

\* most text lines a file holds before appending lines are no longer drawn
MaxFileLines == 2

\* most completion requests counted for one text
MaxPresses == 5

\* most words handed to longest_common_prefix
MaxWords == 3

\* most characters of a word handed to longest_common_prefix
MaxWordLen == 2

-----------------------------------------------------------------------------
(* Sequences *)

Min(a, b) == IF a <= b THEN a ELSE b

\* s[:n] of Python for n >= 0
Take(s, n) == SubSeq(s, 1, Min(n, Len(s)))

\* x in s
In(x, s) == \E i \in 1..Len(s) : s[i] = x

\* s.index(x), 0-based as in Python; used only when x is in s
index(s, x) == (CHOOSE i \in 1..Len(s) : s[i] = x /\ \A j \in 1..(i - 1) : s[j] # x) - 1

\* set(s): the elements of a sequence
Range(s) == {s[i] : i \in 1..Len(s)}

\* all sequences over S of length at most n
RECURSIVE SeqsUpTo(_, _)
SeqsUpTo(S, n) ==
    IF n = 0 THEN {<<>>}
    ELSE LET shorter == SeqsUpTo(S, n - 1)
         IN  shorter \cup {Append(s, x) : s \in {t \in shorter : Len(t) = n - 1}, x \in S}

\* word.startswith(prefix)
startswith(word, prefix) ==
    Len(prefix) <= Len(word) /\ SubSeq(word, 1, Len(prefix)) = prefix

-----------------------------------------------------------------------------
(* The environment: files, directories, the search path *)

\* the redirection operators execute looks for
Operators == {">", "1>", ">>", "1>>", "2>", "2>>"}

Dirs == {"/", "/home/u", "/d"}

\* a path open() fails on (its parent directory does not exist)
BadPath == "nodir/f"

\* the words (after quote removal) input lines are made of
Words == Operators \cup {"f", "g", BadPath}
         \cup {"echo", "exit", "type", "pwd", "cd", "ls", "nosuch"}
         \cup {"x", "7", "abc", "~", "/d", "/nonexistent"}

\* open(path, mode) raises IOError: a directory, or no parent directory
Unopenable == Dirs \cup {BadPath, "/nonexistent", "~", ""}

\* the paths a redirection can open: any other token names a file of the
\* working directory
Paths == Words \ Unopenable

Openable(path) == path \in Paths

HOME == "/home/u"

\* Python's None, where a string is expected
None == "<None>"

NotFound == None

\* s.split(sep) for a one-character separator: "" gives [""]
RECURSIVE split(_, _)
split(s, sep) ==
    IF \E i \in 1..Len(s) : SubSeq(s, i, i) = sep
    THEN LET i == CHOOSE k \in 1..Len(s) :
                      /\ SubSeq(s, k, k) = sep
                      /\ \A j \in 1..(k - 1) : SubSeq(s, j, j) # sep
         IN  <<SubSeq(s, 1, i - 1)>> \o split(SubSeq(s, i + 1, Len(s)), sep)
    ELSE <<s>>

\* os.getenv("PATH", "")
getenv_PATH == IF environ.PATH = None THEN "" ELSE environ.PATH

\* os.getenv("PATH", "").split(":")
PATH == split(getenv_PATH, ":")

\* the value PATH has when the shell is started from a login session
DefaultEnviron == [PATH |-> "/bin:/usr/bin"]

Entry(name, kind, x_ok) == [name |-> name, kind |-> kind, x_ok |-> x_ok]

SearchDirs == {"/bin", "/usr/bin", "/opt"}

\* os.listdir of the directories: regular files and directories, with or
\* without execute (search) permission
DirEntries ==
    [d \in SearchDirs \cup Dirs |->
        CASE d = "/bin" -> {Entry("ls", "file", TRUE), Entry("lsblk", "file", TRUE),
                            Entry("README", "file", FALSE)}
          [] d = "/usr/bin" -> {Entry("ls", "file", TRUE), Entry("cat", "file", TRUE),
                                Entry("X11", "dir", TRUE)}
          [] d = "/opt" -> {Entry("README", "file", TRUE), Entry("X11", "file", TRUE),
                            Entry("cat", "file", FALSE)}
          [] d = "/d" -> {Entry("tool", "file", TRUE), Entry("ls", "file", TRUE)}
          [] OTHER -> {}]

\* os.path.isdir(path)
isdir(path) == path \in DOMAIN DirEntries

\* os.path.join(path, name)
os_path_join(path, name) ==
    IF startswith(name, "/") THEN name
    ELSE IF path = "" \/ SubSeq(path, Len(path), Len(path)) = "/" THEN path \o name
    ELSE path \o "/" \o name

\* the file a path names: a relative path is taken from the working directory
abspath(path) == os_path_join(cwd, path)

\* os.path.isfile(full_path) and os.access(full_path, os.X_OK), for
\* full_path = os.path.join(dir, name)
IsExecutable(dir, name) ==
    \E full \in {abspath(os_path_join(dir, name))} :
        \E d \in DOMAIN DirEntries : \E e \in DirEntries[d] :
            e.kind = "file" /\ e.x_ok /\ os_path_join(d, e.name) = full

\* as find_executable, returning the last match of the search path
find_executable_LastMatch(command_name) ==
    IF \E i \in 1..Len(PATH) : IsExecutable(PATH[i], command_name)
    THEN LET i == CHOOSE k \in 1..Len(PATH) :
                      /\ IsExecutable(PATH[k], command_name)
                      /\ \A j \in (k + 1)..Len(PATH) : ~IsExecutable(PATH[j], command_name)
         IN  os_path_join(PATH[i], command_name)
    ELSE NotFound

\* lines 8-15
find_executable(command_name) ==
    IF \E i \in 1..Len(PATH) : IsExecutable(PATH[i], command_name)
    THEN LET i == CHOOSE k \in 1..Len(PATH) :
                      /\ IsExecutable(PATH[k], command_name)
                      /\ \A j \in 1..(k - 1) : ~IsExecutable(PATH[j], command_name)
         IN  os_path_join(PATH[i], command_name)
    ELSE NotFound

-----------------------------------------------------------------------------
(* Tokenizer: shlex.split on a line of whitespace-separated words *)

Quote == "'"

RECURSIVE CountQuotes(_)
CountQuotes(word) ==
    IF Len(word) = 0 THEN 0
    ELSE (IF SubSeq(word, 1, 1) = Quote THEN 1 ELSE 0)
         + CountQuotes(SubSeq(word, 2, Len(word)))

\* the word with its quote characters removed
RECURSIVE Unquote(_)
Unquote(word) ==
    IF Len(word) = 0 THEN ""
    ELSE (IF SubSeq(word, 1, 1) = Quote THEN "" ELSE SubSeq(word, 1, 1))
         \o Unquote(SubSeq(word, 2, Len(word)))

\* shlex.split raises ValueError("No closing quotation")
NoClosingQuotation(command_input) ==
    \E i \in 1..Len(command_input) : CountQuotes(command_input[i]) % 2 = 1

shlex_split(command_input) == [i \in 1..Len(command_input) |-> Unquote(command_input[i])]

-----------------------------------------------------------------------------
(* Streams and files *)

SysStdout == [stream |-> "stdout", path |-> "", mode |-> "inherit"]

SysStderr == [stream |-> "stderr", path |-> "", mode |-> "inherit"]

FileHandle(stream, path, mode) == [stream |-> stream, path |-> path, mode |-> mode]

\* the file system after open(path, mode): "w" creates or truncates, "a" creates
OpenFile(files, path, mode) ==
    IF mode = "w" \/ path \notin DOMAIN files
    THEN [p \in DOMAIN files \cup {path} |-> IF p = path THEN <<>> ELSE files[p]]
    ELSE files

\* print(text, file=target): one text line to the inherited stream or to the file
Write(st, target, text) ==
    IF target.mode = "inherit"
    THEN IF target.stream = "stdout"
         THEN [st EXCEPT !.out = Append(@, text)]
         ELSE [st EXCEPT !.err = Append(@, text)]
    ELSE [st EXCEPT !.fs[target.path] = Append(@, text)]

\* print(text, file=sys.stderr)
WriteSysStderr(st, text) == [st EXCEPT !.err = Append(@, text)]

\* " ".join(args)
RECURSIVE Join(_)
Join(args) ==
    IF Len(args) = 0 THEN ""
    ELSE IF Len(args) = 1 THEN args[1]
    ELSE args[1] \o " " \o Join(Tail(args))

-----------------------------------------------------------------------------
(* CommandRegistry.execute: redirection handling, lines 165-211 *)

\* the state execute starts from, lines 158-163
StartState(parts, files, dir) ==
    [fs |-> files, cwd |-> dir, out |-> <<>>, err |-> <<>>,
     command_parts |-> parts, stdout_target |-> SysStdout, stderr_target |-> SysStderr,
     opened |-> <<>>, outcome |-> "running", status |-> 0, exc |-> "",
     dispatched |-> FALSE, argv |-> <<>>, handler |-> "none", spawned |-> FALSE]

\* one try block: cut command_parts at the operator, take the next token as the
\* file name and open it; IndexError and IOError print the message and return
Redirect(parts, st, operator_index, stream, mode, what) ==
    LET cut == [st EXCEPT !.command_parts = Take(@, operator_index)]
    IN  IF operator_index + 2 > Len(parts)
        THEN [WriteSysStderr(cut, "Error handling " \o what \o ": list index out of range")
                EXCEPT !.outcome = "aborted", !.exc = "IndexError"]
        ELSE LET file == parts[operator_index + 2]
             IN  IF ~Openable(file)
                 THEN [WriteSysStderr(cut, "Error handling " \o what
                                           \o ": No such file or directory: " \o file)
                         EXCEPT !.outcome = "aborted", !.exc = "IOError"]
                 ELSE LET h == FileHandle(stream, file, mode)
                      IN  [cut EXCEPT !.fs = OpenFile(@, file, mode),
                                      !.opened = Append(@, h),
                                      !.stdout_target = IF stream = "stdout" THEN h ELSE @,
                                      !.stderr_target = IF stream = "stderr" THEN h ELSE @]

\* as StdoutRedirection, with >> and 1>> opening in "w" mode like > and 1>
StdoutRedirection_AppendTruncates(parts, st) ==
    IF In(">>", parts) \/ In("1>>", parts)
    THEN Redirect(parts, st,
                  IF In(">>", parts) THEN index(parts, ">>") ELSE index(parts, "1>>"),
                  "stdout", "w", "stdout append redirection")
    ELSE IF In(">", parts) \/ In("1>", parts)
    THEN Redirect(parts, st,
                  IF In(">", parts) THEN index(parts, ">") ELSE index(parts, "1>"),
                  "stdout", "w", "stdout redirection")
    ELSE st

\* lines 165-187
StdoutRedirection(parts, st) ==
    IF In(">>", parts) \/ In("1>>", parts)
    THEN Redirect(parts, st,
                  IF In(">>", parts) THEN index(parts, ">>") ELSE index(parts, "1>>"),
                  "stdout", "a", "stdout append redirection")
    ELSE IF In(">", parts) \/ In("1>", parts)
    THEN Redirect(parts, st,
                  IF In(">", parts) THEN index(parts, ">") ELSE index(parts, "1>"),
                  "stdout", "w", "stdout redirection")
    ELSE st

\* lines 189-211
StderrRedirection(parts, st) ==
    IF In("2>>", parts)
    THEN Redirect(parts, st, index(parts, "2>>"), "stderr", "a", "stderr append redirection")
    ELSE IF In("2>", parts)
    THEN Redirect(parts, st, index(parts, "2>"), "stderr", "w", "stderr redirection")
    ELSE st

-----------------------------------------------------------------------------
(* Built-in commands.  Each takes the arguments, the state and the fault the
   operating system answers its call with ("none", "permission", "oserror"),
   and writes to st.stdout_target / st.stderr_target. *)

Faults == {"none", "permission", "oserror"}

\* registry.commands after main() registered the built-ins, lines 278-282
Builtins == {"echo", "exit", "type", "pwd", "cd"}

EchoCommand(args, st, fault) == Write(st, st.stdout_target, Join(args))

DigitValue == [c \in {"0", "1", "2", "3", "4", "5", "6", "7", "8", "9"} |->
                 CASE c = "0" -> 0 [] c = "1" -> 1 [] c = "2" -> 2 [] c = "3" -> 3
                   [] c = "4" -> 4 [] c = "5" -> 5 [] c = "6" -> 6 [] c = "7" -> 7
                   [] c = "8" -> 8 [] c = "9" -> 9]

\* characters str.isdigit accepts that are not decimal digits, so that int()
\* raises ValueError on them
OtherDigits == {"²"}

\* str.isdigit
isdigit(s) ==
    /\ Len(s) > 0
    /\ \A i \in 1..Len(s) : SubSeq(s, i, i) \in DOMAIN DigitValue \cup OtherDigits

\* int(s) raises ValueError
IntRaises(s) == \E i \in 1..Len(s) : SubSeq(s, i, i) \notin DOMAIN DigitValue

\* int(s) for a string of decimal digits
RECURSIVE int(_)
int(s) ==
    IF Len(s) = 0 THEN 0
    ELSE 10 * int(SubSeq(s, 1, Len(s) - 1)) + DigitValue[SubSeq(s, Len(s), Len(s))]

\* sys.exit raises SystemExit, which main's "except Exception" does not catch
\* (the ValueError of int() is an Exception, which it does catch)
ExitCommand(args, st, fault) ==
    IF Len(args) = 1 /\ isdigit(args[1])
    THEN IF IntRaises(args[1])
         THEN [st EXCEPT !.outcome = "raised",
                         !.exc = "invalid literal for int() with base 10: '"
                                 \o args[1] \o "'"]
         ELSE [st EXCEPT !.outcome = "exit", !.status = int(args[1])]
    ELSE [st EXCEPT !.outcome = "exit", !.status = 0]

TypeCommand(args, st, fault) ==
    IF Len(args) = 0
    THEN Write(st, st.stderr_target, "type: missing argument")
    ELSE LET command_name == args[1]
             executable_path == find_executable(command_name)
         IN  IF command_name \in Builtins
             THEN Write(st, st.stdout_target, command_name \o " is a shell builtin")
             ELSE IF executable_path # NotFound
             THEN Write(st, st.stdout_target, command_name \o " is " \o executable_path)
             ELSE Write(st, st.stderr_target, command_name \o ": not found")

\* os.getcwd() raises FileNotFoundError when the directory is gone
PwdCommand(args, st, fault) ==
    IF fault = "oserror"
    THEN [st EXCEPT !.outcome = "raised", !.exc = "[Errno 2] No such file or directory"]
    ELSE Write(st, st.stdout_target, st.cwd)

\* as CdCommand, with the working directory changed although os.chdir raised
\* PermissionError
CdCommand_ChdirDespiteDenial(args, st, fault) ==
    IF Len(args) # 1
    THEN Write(st, st.stderr_target, "cd: missing operand")
    ELSE LET target_directory == IF args[1] = "~" THEN HOME ELSE args[1]
         IN  IF target_directory \in Dirs
             THEN IF fault = "permission"
                  THEN Write([st EXCEPT !.cwd = target_directory], st.stderr_target,
                             "cd: " \o target_directory \o ": Permission denied")
                  ELSE IF fault = "oserror"
                  THEN [st EXCEPT !.outcome = "raised",
                                  !.exc = "[Errno 2] No such file or directory"]
                  ELSE [st EXCEPT !.cwd = target_directory]
             ELSE Write(st, st.stderr_target,
                        "cd: " \o target_directory \o ": No such file or directory")

\* os.chdir can fail after isdir succeeded; only PermissionError is caught
CdCommand(args, st, fault) ==
    IF Len(args) # 1
    THEN Write(st, st.stderr_target, "cd: missing operand")
    ELSE LET target_directory == IF args[1] = "~" THEN HOME ELSE args[1]
         IN  IF target_directory \in Dirs
             THEN IF fault = "permission"
                  THEN Write(st, st.stderr_target,
                             "cd: " \o target_directory \o ": Permission denied")
                  ELSE IF fault = "oserror"
                  THEN [st EXCEPT !.outcome = "raised",
                                  !.exc = "[Errno 2] No such file or directory"]
                  ELSE [st EXCEPT !.cwd = target_directory]
             ELSE Write(st, st.stderr_target,
                        "cd: " \o target_directory \o ": No such file or directory")

\* what a spawned program writes on its standard output
ChildOutput(name, args) == name \o ": done"

\* as run_external_command, with "command not found" printed on sys.stderr
run_external_command_SysStderr(name, args, st, fault) ==
    IF find_executable(name) # NotFound
    THEN IF fault # "none"
         THEN WriteSysStderr(st, "Error running " \o name \o ": " \o fault)
         ELSE Write([st EXCEPT !.spawned = TRUE], st.stdout_target, ChildOutput(name, args))
    ELSE WriteSysStderr(st, name \o ": command not found")

\* lines 235-243; an exception of subprocess.run is reported on sys.stderr
run_external_command(name, args, st, fault) ==
    IF find_executable(name) # NotFound
    THEN IF fault # "none"
         THEN WriteSysStderr(st, "Error running " \o name \o ": " \o fault)
         ELSE Write([st EXCEPT !.spawned = TRUE], st.stdout_target, ChildOutput(name, args))
    ELSE Write(st, st.stderr_target, name \o ": command not found")

\* lines 222-233; parts is the command_parts execute passes
execute_command(parts, st, fault) ==
    IF Len(parts) = 0
    THEN st
    ELSE LET command_name == parts[1]
             args == Tail(parts)
             called == [st EXCEPT !.handler = IF command_name \in Builtins
                                              THEN command_name ELSE "external"]
         IN  CASE command_name = "echo" -> EchoCommand(args, called, fault)
               [] command_name = "exit" -> ExitCommand(args, called, fault)
               [] command_name = "type" -> TypeCommand(args, called, fault)
               [] command_name = "pwd"  -> PwdCommand(args, called, fault)
               [] command_name = "cd"   -> CdCommand(args, called, fault)
               [] OTHER -> run_external_command(command_name, args, called, fault)

\* the file objects among the two targets (what lines 217-220 close)
FileTargets(st) == {t \in {st.stdout_target, st.stderr_target} : t.mode # "inherit"}

\* CommandRegistry.execute, lines 156-220.  outcome: "returned" (fell off the
\* end, files closed), "aborted" (a return inside a redirection except block),
\* "raised" (an exception left execute), "exit" (SystemExit left execute).
\* unclosed: the file objects execute opened and did not close.
execute(command_input, files, dir, fault) ==
    LET st0 == StartState(<<>>, files, dir)
    IN  IF NoClosingQuotation(command_input)
        THEN [st0 EXCEPT !.outcome = "raised", !.exc = "No closing quotation"]
                @@ [unclosed |-> {}]
        ELSE LET parts == shlex_split(command_input)
                 st1 == StdoutRedirection(parts, StartState(parts, files, dir))
             IN  IF st1.outcome = "aborted"
                 THEN st1 @@ [unclosed |-> {}]
                 ELSE LET st2 == StderrRedirection(parts, st1)
                      IN  IF st2.outcome = "aborted"
                          THEN st2 @@ [unclosed |-> FileTargets(st2)]
                          ELSE LET st3 == execute_command(
                                              st2.command_parts,
                                              [st2 EXCEPT !.dispatched = TRUE,
                                                          !.argv = st2.command_parts],
                                              fault)
                               IN  IF st3.outcome = "running"
                                   THEN [st3 EXCEPT !.outcome = "returned"]
                                           @@ [unclosed |-> {}]
                                   ELSE st3 @@ [unclosed |-> FileTargets(st3)]

-----------------------------------------------------------------------------
(* CommandCompleter, lines 33-97 *)

\* the characters of names, in code point order
Chars == "0123456789ABCDEFGHIJKLMNOPQRSTUVWXYZ_abcdefghijklmnopqrstuvwxyz"

\* the code point order of each character
OrdTable ==
    [c \in {SubSeq(Chars, i, i) : i \in 1..Len(Chars)} |->
        CHOOSE i \in 1..Len(Chars) : SubSeq(Chars, i, i) = c]

ord(c) == OrdTable[c]

\* a < b for strings, as sorted() compares them
RECURSIVE StrLess(_, _)
StrLess(a, b) ==
    IF Len(b) = 0 THEN FALSE
    ELSE IF Len(a) = 0 THEN TRUE
    ELSE IF SubSeq(a, 1, 1) # SubSeq(b, 1, 1)
         THEN ord(SubSeq(a, 1, 1)) < ord(SubSeq(b, 1, 1))
         ELSE StrLess(SubSeq(a, 2, Len(a)), SubSeq(b, 2, Len(b)))

\* sorted(names) for a set of strings: the i-th is the name that has i - 1
\* names before it
sorted(names) ==
    [i \in 1..Cardinality(names) |->
        CHOOSE n \in names : Cardinality({m \in names : StrLess(m, n)}) = i - 1]

\* lines 18-31: the regular files of the search-path directories that
\* os.access(.., X_OK) accepts
get_executables_in_path ==
    sorted(UNION {{e.name : e \in {d \in DirEntries[PATH[i]] : d.kind = "file" /\ d.x_ok}} :
                      i \in {k \in 1..Len(PATH) : isdir(PATH[k])}})

\* lines 40-51: every entry of a search-path directory that os.access(.., X_OK)
\* accepts, regular file or not
find_executables ==
    sorted(UNION {{e.name : e \in {d \in DirEntries[PATH[i]] : d.x_ok}} :
                      i \in {k \in 1..Len(PATH) : isdir(PATH[k])}})

\* as Shorten, dropping the whole prefix at the first mismatch
Shorten_DropsAll(prefix, word) ==
    IF startswith(word, prefix) THEN prefix ELSE ""

\* the while loop of lines 59-62: shorten prefix until word starts with it
RECURSIVE Shorten(_, _)
Shorten(prefix, word) ==
    IF startswith(word, prefix) THEN prefix
    ELSE IF Len(prefix) = 1 THEN ""
    ELSE Shorten(SubSeq(prefix, 1, Len(prefix) - 1), word)

\* the for loop of lines 58-63 over words[i..]
RECURSIVE PrefixOver(_, _, _)
PrefixOver(prefix, words, i) ==
    IF i > Len(words) THEN prefix
    ELSE LET p == Shorten(prefix, words[i])
         IN  IF p = "" THEN "" ELSE PrefixOver(p, words, i + 1)

longest_common_prefix(words) ==
    IF Len(words) = 0 THEN "" ELSE PrefixOver(words[1], words, 2)

\* line 67
CompleterBuiltins == <<"echo", "exit", "type">>

\* lines 68-69
all_commands ==
    sorted(Range(CompleterBuiltins) \cup Range(find_executables))

\* [cmd for cmd in all_commands if cmd.startswith(text)]
Filter(cmds, text) == SelectSeq(cmds, LAMBDA cmd : startswith(cmd, text))

\* lines 72-76: the fields after the "text != self.last_text" block
Refreshed(c, text) ==
    IF text # c.last_text
    THEN [matches |-> Filter(all_commands, text), last_text |-> text,
          match_index |-> -1, tab_count |-> 0]
    ELSE c

Answer(c, returned, bell, listed) ==
    [comp |-> c, returned |-> returned, bell |-> bell, listed |-> listed]

\* as completer, with the press counter advanced when the common prefix is
\* returned
completer_PrefixCounts(c, text, state) ==
    IF state # 0 THEN Answer(c, None, FALSE, <<>>)
    ELSE LET c1 == Refreshed(c, text)
         IN  IF Len(c1.matches) = 1
             THEN Answer(c1, c1.matches[1] \o " ", FALSE, <<>>)
             ELSE IF Len(c1.matches) > 1
             THEN LET common_prefix == longest_common_prefix(c1.matches)
                      c2 == [c1 EXCEPT !.tab_count = @ + 1]
                  IN  IF common_prefix # text
                      THEN Answer(c2, common_prefix, FALSE, <<>>)
                      ELSE IF c2.tab_count = 1
                           THEN Answer(c2, None, TRUE, <<>>)
                           ELSE IF c2.tab_count = 2
                           THEN Answer(c2, None, FALSE, c2.matches)
                           ELSE LET c3 == [c2 EXCEPT !.match_index =
                                               (@ + 1) % Len(c2.matches)]
                                IN  Answer(c3, c3.matches[c3.match_index + 1] \o " ",
                                           FALSE, <<>>)
             ELSE Answer(c1, None, FALSE, <<>>)

\* completer(text, state), lines 65-97: the fields after the call, the value
\* returned and what was printed
completer(c, text, state) ==
    IF state # 0 THEN Answer(c, None, FALSE, <<>>)
    ELSE LET c1 == Refreshed(c, text)
         IN  IF Len(c1.matches) = 1
             THEN Answer(c1, c1.matches[1] \o " ", FALSE, <<>>)
             ELSE IF Len(c1.matches) > 1
             THEN LET common_prefix == longest_common_prefix(c1.matches)
                  IN  IF common_prefix # text
                      THEN Answer(c1, common_prefix, FALSE, <<>>)
                      ELSE LET c2 == [c1 EXCEPT !.tab_count = @ + 1]
                           IN  IF c2.tab_count = 1
                               THEN Answer(c2, None, TRUE, <<>>)
                               ELSE IF c2.tab_count = 2
                               THEN Answer(c2, None, FALSE, c2.matches)
                               ELSE LET c3 == [c2 EXCEPT !.match_index =
                                                   (@ + 1) % Len(c2.matches)]
                                    IN  Answer(c3, c3.matches[c3.match_index + 1] \o " ",
                                               FALSE, <<>>)
             ELSE Answer(c1, None, FALSE, <<>>)

-----------------------------------------------------------------------------
(* The state of the shell process *)

NotExited == -1

\* the status the parent process sees after sys.exit(n): its low eight bits
ProcessStatus(n) == n % 256

\* no file exists
EmptyFs == [p \in {} |-> <<>>]

\* no execute has run for the line yet
\* what is kept of an execute: how it ended, what it wrote on the inherited
\* streams, what it dispatched, the files it opened and left unclosed, and the
\* files and working directory it started from
Observed(r, files, dir) ==
    [outcome |-> r.outcome, status |-> r.status, exc |-> r.exc,
     out |-> r.out, err |-> r.err,
     dispatched |-> r.dispatched, argv |-> r.argv, handler |-> r.handler,
     spawned |-> r.spawned,
     stdout_target |-> r.stdout_target, stderr_target |-> r.stderr_target,
     opened |-> r.opened, unclosed |-> r.unclosed,
     fs0 |-> files, cwd0 |-> dir]

Idle ==
    Observed([StartState(<<>>, EmptyFs, "/") EXCEPT !.outcome = "idle"] @@ [unclosed |-> {}],
             EmptyFs, "/")

\* the completer object created at import time, lines 34-38 and 99
NewCompleter == [matches |-> <<>>, last_text |-> "", match_index |-> -1, tab_count |-> 0]

\* what a completer call gave: the value returned, whether the bell was
\* printed, the matches printed; with the call's arguments
NoCompletion ==
    [returned |-> None, bell |-> FALSE, listed |-> <<>>, text |-> "", state |-> 0,
     streak |-> 0]

\* no find_executable call observed yet
NoResolve == [name |-> None, path |-> None]

\* no longest_common_prefix call is running
NoLcp == [pc |-> "idle", words |-> <<>>, prefix |-> "", i |-> 0]

FilesWithinBound(files) == \A p \in DOMAIN files : Len(files[p]) <= MaxFileLines

-----------------------------------------------------------------------------
(* main(), lines 284-291 *)

\* input("$ ") returns a line
ReadLine(command_input) ==
    /\ pc = "reading"
    /\ pc' = "dispatching"
    /\ line' = command_input
    /\ last' = Idle
    /\ UNCHANGED <<fs, cwd, handles, exitStatus, comp, compOut, auxVars>>

\* input("$ ") raises EOFError: break, and the process ends with status 0
ReadEOF ==
    /\ pc = "reading"
    /\ pc' = "exited"
    /\ exitStatus' = 0
    /\ handles' = {}
    /\ UNCHANGED <<line, fs, cwd, last, comp, compOut, auxVars>>

\* as AfterExecute, without the "except Exception" clause: any exception that
\* leaves execute ends the process
AfterExecute_NoCatch(r) ==
    IF r.outcome \in {"exit", "raised"} THEN "exited" ELSE "reading"

\* what main does with the way registry.execute ended: SystemExit ends the
\* process, any other exception is printed as "Error: ..." and the loop goes on
AfterExecute(r) ==
    IF r.outcome = "exit" THEN "exited" ELSE "reading"

Report(r) ==
    IF r.outcome = "raised" THEN [r EXCEPT !.err = Append(@, "Error: " \o r.exc)] ELSE r

\* registry.execute(command_input) and main's except clauses.  A file object
\* execute leaves unclosed is closed when the runtime finalizes it: at once
\* (reference counting) or later (Finalize), so any part of them may stay open.
Execute ==
    /\ pc = "dispatching"
    /\ \E fault \in Faults : \E r \in {execute(line, fs, cwd, fault)} :
             /\ FilesWithinBound(r.fs)
             /\ fs' = r.fs
             /\ cwd' = r.cwd
             /\ pc' = AfterExecute(r)
             /\ exitStatus' = IF r.outcome = "exit" THEN ProcessStatus(r.status)
                                                      ELSE exitStatus
             /\ last' = Observed(Report(r), fs, cwd)
             /\ \E kept \in SUBSET r.unclosed :
                  handles' = IF r.outcome = "exit" THEN {} ELSE handles \cup kept
    /\ UNCHANGED <<line, comp, compOut, auxVars>>

\* the runtime finalizes an unreachable file object, closing it
Finalize ==
    /\ pc # "exited"
    /\ \E h \in handles : handles' = handles \ {h}
    /\ UNCHANGED <<pc, line, fs, cwd, exitStatus, last, comp, compOut, auxVars>>

\* readline calls completer(text, state) on a TAB press: state 0 first, then
\* 1, 2, ... while a value is returned.  streak counts the state-0 calls made
\* in a row with the same text.
Complete(text, state) ==
    /\ pc = "reading"
    /\ state # 0 => (compOut.streak > 0 /\ text = compOut.text)
    /\ \E a \in {completer(comp, text, state)} :
         /\ a.comp.tab_count <= MaxPresses
         /\ comp' = a.comp
         /\ compOut' = [returned |-> a.returned, bell |-> a.bell, listed |-> a.listed,
                        text |-> text, state |-> state,
                        streak |-> IF state # 0 THEN compOut.streak
                                   ELSE IF compOut.streak > 0 /\ text = compOut.text
                                        THEN Min(compOut.streak + 1, MaxPresses)
                                        ELSE 1]
    /\ UNCHANGED <<shellVars, auxVars>>

\* find_executable(command_name) called on its own, lines 8-15
Resolve(command_name) ==
    /\ pc = "reading"
    /\ resolved' = [name |-> command_name, path |-> find_executable(command_name)]
    /\ UNCHANGED <<shellVars, compVars, environ, lcp>>

\* longest_common_prefix(words) step by step.  lines 55-57: the empty list
\* returns "", otherwise prefix starts as the first word and the for loop
\* starts at the second
LcpEnter ==
    /\ lcp.pc = "called"
    /\ lcp' = IF Len(lcp.words) = 0
              THEN [lcp EXCEPT !.pc = "returned", !.prefix = ""]
              ELSE [lcp EXCEPT !.pc = "for", !.prefix = lcp.words[1], !.i = 2]
    /\ UNCHANGED <<shellVars, compVars, environ, resolved>>

\* lines 58 and 63: take the next word, or return prefix after the last one
LcpFor ==
    /\ lcp.pc = "for"
    /\ lcp' = IF lcp.i > Len(lcp.words)
              THEN [lcp EXCEPT !.pc = "returned"]
              ELSE [lcp EXCEPT !.pc = "while"]
    /\ UNCHANGED <<shellVars, compVars, environ, resolved>>

\* lines 59-62: one test of the while condition and, when it holds, one pass
\* of the body
LcpWhile ==
    /\ lcp.pc = "while"
    /\ lcp' = IF startswith(lcp.words[lcp.i], lcp.prefix)
              THEN [lcp EXCEPT !.pc = "for", !.i = @ + 1]
              ELSE LET shorter == SubSeq(lcp.prefix, 1, Len(lcp.prefix) - 1)
                   IN  IF shorter = ""
                       THEN [lcp EXCEPT !.pc = "returned", !.prefix = ""]
                       ELSE [lcp EXCEPT !.prefix = shorter]
    /\ UNCHANGED <<shellVars, compVars, environ, resolved>>

-----------------------------------------------------------------------------
(* Input lines *)

\* the partial texts completion is asked for
CompTexts == {"", "e", "ec", "ex", "l", "ls", "lsb", "t", "c", "X", "z"}

\* the lines the read-eval loop is run on
LoopLines ==
    { <<>>, <<"echo", "x">>, <<"nosuch">>, <<"ls">>, <<"pwd">>,
      <<"echo", "x", ">", "f">>, <<"echo", "x", "1>", "f">>,
      <<"echo", "x", ">>", "f">>, <<"echo", "x", "1>>", "f">>,
      <<"echo", "x", "2>", "f">>, <<"echo", "x", "2>>", "f">>,
      <<"nosuch", "2>", "f">>, <<"nosuch", "2>>", "f">>, <<"nosuch", ">", "f">>,
      <<"ls", ">", "f">>, <<"ls", "2>", "f">>,
      <<"echo", "x", ">">>, <<"echo", "x", ">", BadPath>>,
      <<"echo", "x", ">", "f", "2>">>, <<"echo", "x", ">>", "f", "2>", BadPath>>,
      <<"cd", "/d">>, <<"cd", "~">>, <<"cd">>, <<"cd", "/nonexistent">>,
      <<"cd", "/d", ">", "f">>, <<"pwd", "2>", "f">>,
      <<"type", "ls">>, <<"type", "nosuch", "2>", "f">>, <<"type">>,
      <<"exit">>, <<"exit", "7">>, <<"exit", "abc">>, <<"exit", "7", ">", "f">>,
      <<"exit", ">">>, <<"exit", "256">>, <<"exit", "²">>, <<"exit", "7", "7">>,
      <<"echo", "'x">>, <<"echo", "'x'">> }

\* the command words the one-line specification puts before the redirections
ParseHeads == { <<"echo", "x">>, <<"nosuch">>, <<"ls">> }

TailWords == Operators \cup {"f", "g", BadPath}

ParseLines == {h \o t : h \in ParseHeads, t \in SeqsUpTo(TailWords, MaxTail)}

\* files the shell finds when it starts: f and g exist, with a line each
OldFs == [p \in {"f", "g"} |-> <<"old">>]

\* values of the PATH environment variable: unset, empty, one directory,
\* several in either order, with a missing directory or an empty element
EnvValues ==
    {None, "", "/bin", "/bin:/usr/bin", "/usr/bin:/bin", "/opt:/bin:/usr/bin",
     "/bin:/opt", "/usr/bin:/opt", "/nodir:/usr/bin", ":/bin"}

\* the names find_executable is asked for
ResolveNames == {"ls", "lsblk", "cat", "X11", "README", "tool", "nosuch"}

\* the lines run under each search path
PathLines ==
    { <<"ls">>, <<"tool">>, <<"nosuch">>, <<"cat">>,
      <<"type", "ls">>, <<"type", "tool">>, <<"type", "cat">>, <<"type", "README">>,
      <<"type", "nosuch">>, <<"type", "echo">> }

\* the lines run for the working directory
CwdLines ==
    { <<"cd", "/d">>, <<"cd", "~">>, <<"cd">>, <<"cd", "/d", "/d">>,
      <<"cd", "/nonexistent">>, <<"cd", "f">>, <<"cd", "/d", ">", "f">>,
      <<"pwd">>, <<"ls">>, <<"echo", "x", ">", "f">>, <<"type", "cd">> }

\* the partial texts completion is asked for between those lines
CwdTexts == {"e", "l"}

\* the letters of the words handed to longest_common_prefix
LcpLetters == {"a", "b"}

\* the strings of at most n letters
RECURSIVE StringsUpTo(_)
StringsUpTo(n) ==
    IF n = 0 THEN {""}
    ELSE LET shorter == StringsUpTo(n - 1)
         IN  shorter \cup {s \o c : s \in shorter, c \in LcpLetters}

LcpInputs == SeqsUpTo(StringsUpTo(MaxWordLen), MaxWords)

-----------------------------------------------------------------------------
(* Specifications *)

\* the shell from its start: main() is about to read the first line
Init ==
    /\ pc = "reading"
    /\ line = <<>>
    /\ fs = EmptyFs
    /\ cwd = "/"
    /\ handles = {}
    /\ exitStatus = NotExited
    /\ last = Idle
    /\ comp = NewCompleter
    /\ compOut = NoCompletion
    /\ environ = DefaultEnviron
    /\ resolved = NoResolve
    /\ lcp = NoLcp

Next ==
    \/ \E command_input \in LoopLines : ReadLine(command_input)
    \/ ReadEOF
    \/ Execute
    \/ Finalize

Spec == Init /\ [][Next]_vars

\* one line, of any shape up to MaxTail redirection tokens, handed to execute
ParseInit ==
    /\ pc = "dispatching"
    /\ line \in ParseLines
    /\ fs = OldFs
    /\ cwd = "/"
    /\ handles = {}
    /\ exitStatus = NotExited
    /\ last = Idle
    /\ comp = NewCompleter
    /\ compOut = NoCompletion
    /\ environ = DefaultEnviron
    /\ resolved = NoResolve
    /\ lcp = NoLcp

ParseNext ==
    \/ Execute
    \/ Finalize

ParseSpec == ParseInit /\ [][ParseNext]_vars

\* the line editor at a prompt: TAB presses with any text
CompNext == \E text \in CompTexts, state \in {0, 1} : Complete(text, state)

CompSpec == Init /\ [][CompNext]_vars

\* the shell started in any directory with any value of PATH: resolutions on
\* their own and through command lines
PathInit ==
    /\ pc = "reading"
    /\ line = <<>>
    /\ fs = EmptyFs
    /\ cwd \in Dirs
    /\ handles = {}
    /\ exitStatus = NotExited
    /\ last = Idle
    /\ comp = NewCompleter
    /\ compOut = NoCompletion
    /\ environ \in [PATH : EnvValues]
    /\ resolved = NoResolve
    /\ lcp = NoLcp

PathNext ==
    \/ \E command_name \in ResolveNames : Resolve(command_name)
    \/ \E command_input \in PathLines : ReadLine(command_input)
    \/ Execute

PathSpec == PathInit /\ [][PathNext]_vars

\* the read-eval loop on the lines about the working directory, with TAB
\* presses at the prompt
CwdNext ==
    \/ \E command_input \in CwdLines : ReadLine(command_input)
    \/ Execute
    \/ Finalize
    \/ \E text \in CwdTexts : Complete(text, 0)

CwdSpec == Init /\ [][CwdNext]_vars

\* one call of longest_common_prefix on any list of words; the call runs on
\* once made
LcpInit ==
    /\ pc = "reading"
    /\ line = <<>>
    /\ fs = EmptyFs
    /\ cwd = "/"
    /\ handles = {}
    /\ exitStatus = NotExited
    /\ last = Idle
    /\ comp = NewCompleter
    /\ compOut = NoCompletion
    /\ environ = DefaultEnviron
    /\ resolved = NoResolve
    /\ lcp \in {[pc |-> "called", words |-> words, prefix |-> "", i |-> 0] :
                    words \in LcpInputs}

LcpNext ==
    \/ LcpEnter
    \/ LcpFor
    \/ LcpWhile

LcpSpec == LcpInit /\ [][LcpNext]_vars /\ WF_vars(LcpNext)

-----------------------------------------------------------------------------
(* Vocabulary of the properties *)

StdoutOps == {">", "1>", ">>", "1>>"}

StderrOps == {"2>", "2>>"}

\* the tokens of the line execute was given
Tokens == IF NoClosingQuotation(line) THEN <<>> ELSE shlex_split(line)

\* an execute has run for the current line
Executed == last.outcome # "idle"

\* no operator stands where another operator's file name is expected
NoAdjacentOperators(parts) ==
    \A i \in 1..(Len(parts) - 1) : ~(parts[i] \in Operators /\ parts[i + 1] \in Operators)

\* the line starts with a command word and every operator that has a next
\* token has a word, not an operator, as its file name
WellFormed(parts) ==
    /\ Len(parts) > 0
    /\ parts[1] \notin Operators
    /\ NoAdjacentOperators(parts)

\* the line names a target of both stream classes
NamesBothClasses(parts) ==
    /\ \E i \in 1..Len(parts) : parts[i] \in StdoutOps
    /\ \E i \in 1..Len(parts) : parts[i] \in StderrOps

\* position of the leftmost token of the set, 0 when there is none
Leftmost(parts, ops) ==
    IF \E i \in 1..Len(parts) : parts[i] \in ops
    THEN CHOOSE i \in 1..Len(parts) :
             parts[i] \in ops /\ \A j \in 1..(i - 1) : parts[j] \notin ops
    ELSE 0

\* the tokens before the leftmost redirection operator, all of them without one
BeforeEarliestOperator(parts) ==
    IF Leftmost(parts, Operators) = 0 THEN parts
    ELSE SubSeq(parts, 1, Leftmost(parts, Operators) - 1)

ModeOf(op) == IF op \in {">>", "1>>", "2>>"} THEN "a" ELSE "w"

\* the lines of a file, none when it does not exist
Content(files, path) == IF path \in DOMAIN files THEN files[path] ELSE <<>>

-----------------------------------------------------------------------------
(* C1 *)

\* C1: whenever the loop is back at reading the next line, or the process has
\* exited, no redirection target file opened for an earlier line is still open.
C1_NoFileHeldAcrossIterations == pc \in {"reading", "exited"} => handles = {}

-----------------------------------------------------------------------------
(* C2 *)

\* C2: when a line names a target of both classes and execute gave up because
\* one target could not be acquired, nothing was dispatched and no target of the
\* other class is left open when execute has returned.
C2_OtherTargetClosedOnFailure ==
    (Executed /\ last.outcome = "aborted" /\ WellFormed(Tokens) /\ NamesBothClasses(Tokens))
        => (~last.dispatched /\ handles = {})

-----------------------------------------------------------------------------
(* C3 *)

\* the line asks for the exit built-in
IsExitInvocation(command_input) ==
    /\ ~NoClosingQuotation(command_input)
    /\ Len(command_input) > 0
    /\ shlex_split(command_input)[1] = "exit"

\* C3: a dispatched line that is not an exit invocation always brings the loop
\* back to reading, with a message on the inherited stderr when execute gave up
\* or raised; the process ends only from reading (end of input) or on a line
\* that invokes exit.
C3_LoopSurvivesBadLine ==
    [][ /\ (pc = "dispatching" /\ pc' # "dispatching" /\ ~IsExitInvocation(line))
            => /\ pc' = "reading"
               /\ (last'.outcome \in {"aborted", "raised"} => last'.err # <<>>)
        /\ (pc # "exited" /\ pc' = "exited")
            => (pc = "reading" \/ IsExitInvocation(line)) ]_vars

\* an exception left execute, was reported, and the loop reads again
C3_Witness ==
    /\ pc = "reading"
    /\ last.outcome = "raised"
    /\ last.err = <<"Error: " \o last.exc>>

-----------------------------------------------------------------------------
(* C4 *)

\* C4: the argument vector handed to dispatch is the tokens before the
\* earliest redirection operator of either class (all tokens without one), so
\* it holds no operator.
C4_ArgvBeforeEarliestOperator ==
    (Executed /\ last.dispatched /\ WellFormed(Tokens))
        => /\ last.argv = BeforeEarliestOperator(Tokens)
           /\ \A i \in 1..Len(last.argv) : last.argv[i] \notin Operators

-----------------------------------------------------------------------------
(* C5 *)

\* the target the leftmost operator of the class names
LeftmostTarget(parts, ops, stream) ==
    LET i == Leftmost(parts, ops)
    IN  FileHandle(stream, parts[i + 1], ModeOf(parts[i]))

\* C5: of several operators of one class the leftmost alone decides the
\* stream's target path and open mode.
C5_LeftmostOperatorWins ==
    (Executed /\ last.dispatched /\ WellFormed(Tokens))
        => /\ Leftmost(Tokens, StdoutOps) # 0
               => last.stdout_target = LeftmostTarget(Tokens, StdoutOps, "stdout")
           /\ Leftmost(Tokens, StderrOps) # 0
               => last.stderr_target = LeftmostTarget(Tokens, StderrOps, "stderr")

-----------------------------------------------------------------------------
(* C6 *)

\* C6: when the last token of the line is a redirection operator (one that is
\* not itself the file name of an operator before it), nothing is dispatched
\* or spawned and the error is on the inherited stderr.
C6_DanglingOperatorAborts ==
    (Executed /\ WellFormed(Tokens) /\ Tokens[Len(Tokens)] \in Operators)
        => /\ ~last.dispatched
           /\ last.handler = "none"
           /\ ~last.spawned
           /\ last.err # <<>>

-----------------------------------------------------------------------------
(* C7 *)

\* C7: a line whose redirection parsing fails on a missing file name opens no
\* file and leaves the file system as it was.
C7_FailedParseOpensNothing ==
    (Executed /\ last.outcome = "aborted" /\ last.exc = "IndexError" /\ WellFormed(Tokens))
        => (last.opened = <<>> /\ fs = last.fs0)

-----------------------------------------------------------------------------
(* C8 *)

\* the line is: echo, arguments without operators, one operator, a file
IsEchoTo(parts, ops) ==
    /\ Len(parts) >= 3
    /\ parts[1] = "echo"
    /\ parts[Len(parts) - 1] \in ops
    /\ \A i \in 1..Len(parts) : i # Len(parts) - 1 => parts[i] \notin Operators

EchoText(parts) == Join(SubSeq(parts, 2, Len(parts) - 2))

\* the line is: a command that is not found, one stderr operator, a file
IsNotFoundTo(parts, ops) ==
    /\ Len(parts) = 3
    /\ parts[1] \notin Builtins /\ find_executable(parts[1]) = NotFound
    /\ parts[2] \in ops
    /\ parts[1] \notin Operators /\ parts[3] \notin Operators

\* C8: after each run of "echo ... > f" (or 1>) f holds exactly that run's
\* line; after each run of "echo ... >> f" (or 1>>) f holds what it held before
\* followed by that run's line; 2> empties f and 2>> keeps it when the command
\* writes nothing on stderr, and they hold or gain the message when it does.
C8_TruncateVersusAppend ==
    (pc = "reading" /\ last.outcome = "returned") =>
        LET parts == Tokens
            f == parts[Len(parts)]
        IN  /\ IsEchoTo(parts, {">", "1>"}) => fs[f] = <<EchoText(parts)>>
            /\ IsEchoTo(parts, {">>", "1>>"})
                   => fs[f] = Append(Content(last.fs0, f), EchoText(parts))
            /\ IsEchoTo(parts, {"2>"}) => fs[f] = <<>>
            /\ IsEchoTo(parts, {"2>>"}) => fs[f] = Content(last.fs0, f)
            /\ IsNotFoundTo(parts, {"2>"})
                   => fs[f] = <<parts[1] \o ": command not found">>
            /\ IsNotFoundTo(parts, {"2>>"})
                   => fs[f] = Append(Content(last.fs0, f), parts[1] \o ": command not found")

\* the second of two appending runs: f holds both lines in order
C8_Witness ==
    /\ pc = "reading" /\ last.outcome = "returned"
    /\ IsEchoTo(Tokens, {">>", "1>>"})
    /\ Content(last.fs0, "f") = <<"x">>
    /\ Content(fs, "f") = <<"x", "x">>

-----------------------------------------------------------------------------
(* C9 *)

NotFoundMessage(name) == name \o ": command not found"

\* C9: a dispatched command that is neither a built-in nor found on the search
\* path spawns nothing; its "command not found" message is the last line of
\* the file the line's stderr operator names, with nothing on the inherited
\* stderr, and is on the inherited stderr when the line has none.
C9_NotFoundGoesToStderrTarget ==
    (Executed /\ last.dispatched /\ Len(last.argv) > 0
       /\ last.argv[1] \notin Builtins /\ find_executable(last.argv[1]) = NotFound)
        => /\ ~last.spawned
           /\ last.out = <<>>
           /\ IF last.stderr_target.mode = "inherit"
              THEN last.err = <<NotFoundMessage(last.argv[1])>>
              ELSE /\ last.err = <<>>
                   /\ Len(fs[last.stderr_target.path]) > 0
                   /\ fs[last.stderr_target.path][Len(fs[last.stderr_target.path])]
                          = NotFoundMessage(last.argv[1])

\* "nosuch 2> f" or "nosuch 2>> f" ran: the message is in f
C9_Witness ==
    /\ Executed /\ last.dispatched
    /\ last.argv = <<"nosuch">>
    /\ last.stderr_target.mode # "inherit"
    /\ last.err = <<>>
    /\ fs[last.stderr_target.path] # <<>>

-----------------------------------------------------------------------------
(* C10 *)

\* the candidates the text is a prefix of
Matching(text) == Filter(all_commands, text)

\* the text has two or more matching candidates and is their common prefix
Ambiguous(text) ==
    Len(Matching(text)) >= 2 /\ longest_common_prefix(Matching(text)) = text

\* C10: for a text that has at least two matching candidates and equals their
\* longest common prefix, the 1st request in a row with that text rings the
\* bell and returns nothing, the 2nd prints all matches and returns nothing,
\* the 3rd and later return a candidate; a request with another text than the
\* one before starts again at the bell.
C10_DisambiguationOrder ==
    (compOut.streak > 0 /\ compOut.state = 0 /\ Ambiguous(compOut.text))
        => /\ compOut.streak = 1
               => (compOut.bell /\ compOut.returned = None /\ compOut.listed = <<>>)
           /\ compOut.streak = 2
               => /\ ~compOut.bell /\ compOut.returned = None
                  /\ compOut.listed = Matching(compOut.text)
           /\ compOut.streak >= 3
               => /\ ~compOut.bell /\ compOut.listed = <<>>
                  /\ \E i \in 1..Len(Matching(compOut.text)) :
                         compOut.returned = Matching(compOut.text)[i] \o " "

-----------------------------------------------------------------------------
(* C11 *)

\* the names of the built-in table united with the regular executable files
\* of the search path, without duplicates, in lexicographic order
RegisteredCandidates ==
    sorted(Builtins \cup Range(get_executables_in_path))

\* C11: the candidates a completion request works from are the registered
\* built-ins (echo, exit, type, pwd, cd) united with the regular executable
\* files of the search-path directories, deduplicated and sorted.
C11_CandidateSet ==
    compOut.streak > 0 => all_commands = RegisteredCandidates

-----------------------------------------------------------------------------
(* C12 *)

\* C12: after every request with text t, the first of the session and the
\* empty text included, the engine's candidate list is the candidates that
\* have t as a prefix; when t is not the text of the request before, the
\* cursor and the press counter were reset before the answer (so the counter
\* is at most 1 and nothing was cycled).
C12_CandidateListFollowsText ==
    (compOut.streak > 0 /\ compOut.state = 0)
        => /\ comp.matches = Matching(compOut.text)
           /\ compOut.streak = 1 => (comp.match_index = -1 /\ comp.tab_count \in {0, 1})

-----------------------------------------------------------------------------
(* C13 *)

\* C13: a request whose text matches no candidate returns nothing, prints
\* nothing and leaves last_text, matches, match_index and tab_count as they
\* were.
C13_NoMatchNoChange ==
    [][ (compOut' # compOut /\ compOut'.state = 0 /\ Matching(compOut'.text) = <<>>)
            => /\ compOut'.returned = None /\ ~compOut'.bell /\ compOut'.listed = <<>>
               /\ comp' = comp ]_vars

-----------------------------------------------------------------------------
(* C14 *)

\* p is a prefix of every word
IsCommonPrefix(p, words) == \A i \in 1..Len(words) : startswith(words[i], p)

\* the longest string that is a prefix of every word ("" for no words)
LongestCommon(words) ==
    IF Len(words) = 0 THEN ""
    ELSE LET prefixes == {SubSeq(words[1], 1, k) : k \in 0..Len(words[1])}
         IN  CHOOSE p \in prefixes :
                 /\ IsCommonPrefix(p, words)
                 /\ \A q \in prefixes : IsCommonPrefix(q, words) => Len(q) <= Len(p)

\* the text has two or more matching candidates, whose longest common prefix
\* is longer than the text
HasLongerCommonPrefix(text) ==
    /\ Len(Matching(text)) >= 2
    /\ Len(LongestCommon(Matching(text))) > Len(text)

\* C14: a request whose text matches two or more candidates with a common
\* prefix longer than the text returns that prefix, without a trailing
\* separator, rings and prints nothing, and leaves the press counter at 0,
\* every time it is made.
C14_CommonPrefixReturned ==
    [][ (compOut' # compOut /\ compOut'.state = 0 /\ HasLongerCommonPrefix(compOut'.text))
            => /\ compOut'.returned = LongestCommon(Matching(compOut'.text))
               /\ ~compOut'.bell /\ compOut'.listed = <<>>
               /\ comp'.tab_count = 0
               /\ compOut'.text = comp.last_text => comp'.tab_count = comp.tab_count ]_vars

\* the third request in a row for "l": "ls" again, the counter still 0
C14_Witness ==
    /\ compOut.text = "l" /\ compOut.state = 0 /\ compOut.streak >= 3
    /\ compOut.returned = "ls"
    /\ comp.tab_count = 0

-----------------------------------------------------------------------------
(* C15 *)

\* C15: the k-th request in a row (k >= 3) for a text that has several
\* matching candidates and is their common prefix returns matches[(k-3) mod n]
\* followed by a separator, and the cursor is that index, within 0..n-1.
C15_CyclingOrder ==
    (compOut.streak >= 3 /\ compOut.state = 0 /\ Ambiguous(compOut.text))
        => LET n == Len(Matching(compOut.text))
               k == compOut.streak
           IN  /\ compOut.returned = Matching(compOut.text)[((k - 3) % n) + 1] \o " "
               /\ comp.match_index = (k - 3) % n
               /\ comp.match_index \in 0..(n - 1)

-----------------------------------------------------------------------------
(* C16 *)

\* name is a regular executable file in the directory the search-path entry
\* names (the empty entry names the working directory)
Present(entry, name) ==
    LET d == IF entry = "" THEN cwd ELSE entry
    IN  /\ d \in DOMAIN DirEntries
        /\ \E e \in DirEntries[d] : e.name = name /\ e.kind = "file" /\ e.x_ok

\* C16: find_executable(name) is the path of name in the earliest search-path
\* entry where name is a regular executable file, entries where it is missing,
\* not a regular file or not executable being skipped; not-found when there is
\* no such entry.
C16_FirstMatchWins ==
    resolved.name # None
        => /\ \A i \in 1..Len(PATH) :
                  (/\ Present(PATH[i], resolved.name)
                   /\ \A j \in 1..(i - 1) : ~Present(PATH[j], resolved.name))
                      => resolved.path = os_path_join(PATH[i], resolved.name)
           /\ (\A i \in 1..Len(PATH) : ~Present(PATH[i], resolved.name))
                  => resolved.path = NotFound

\* ls is in both directories and the one listed first is taken
C16_Witness ==
    /\ environ.PATH = "/usr/bin:/bin"
    /\ resolved.name = "ls"
    /\ resolved.path = "/usr/bin/ls"

-----------------------------------------------------------------------------
(* C17 *)

\* C17: with PATH unset or empty find_executable finds nothing, whatever the
\* working directory holds: every dispatched command that is no built-in
\* spawns nothing and reports "command not found", and type reports
\* "not found" for every name that is no built-in.
C17_EmptyPathFindsNothing ==
    environ.PATH \in {None, ""}
        => /\ resolved.name # None => resolved.path = NotFound
           /\ (Executed /\ last.dispatched /\ Len(last.argv) > 0
                  /\ last.argv[1] \notin Builtins)
                 => (~last.spawned /\ last.err = <<NotFoundMessage(last.argv[1])>>)
           /\ (Executed /\ last.dispatched /\ Len(last.argv) = 2
                  /\ last.argv[1] = "type" /\ last.argv[2] \notin Builtins)
                 => (last.out = <<>> /\ last.err = <<last.argv[2] \o ": not found">>)

-----------------------------------------------------------------------------
(* C18 *)

\* the step is a whole registry.execute that dispatched the handler
Ran(handler) ==
    /\ pc = "dispatching" /\ pc' # "dispatching"
    /\ last'.dispatched /\ last'.handler = handler

\* the directory a cd with these arguments asks for
CdTarget(argv) == IF argv[2] = "~" THEN HOME ELSE argv[2]

\* C18: the working directory changes only in a cd that has one operand
\* naming a directory and reports no error, and becomes that directory (the
\* home directory for ~); a cd with no or several operands, with a path that
\* is no directory, or that reports an error leaves it unchanged and reports
\* the error; pwd prints the working directory.
C18_CwdChangesOnlyByCd ==
    [][ /\ cwd' # cwd
            => /\ Ran("cd")
               /\ Len(last'.argv) = 2
               /\ cwd' = CdTarget(last'.argv)
               /\ cwd' \in Dirs
               /\ last'.outcome = "returned" /\ last'.err = <<>>
        /\ (Ran("cd") /\ (Len(last'.argv) # 2 \/ CdTarget(last'.argv) \notin Dirs))
            => (cwd' = cwd /\ last'.err # <<>>)
        /\ (Ran("cd") /\ last'.err # <<>>) => cwd' = cwd
        /\ (Ran("cd") /\ last'.err = <<>>) => cwd' = CdTarget(last'.argv)
        /\ (Ran("pwd") /\ last'.outcome = "returned") => last'.out = <<cwd>> ]_vars

\* pwd printed the home directory, which only a cd ~ leads to
C18_Witness ==
    /\ last.handler = "pwd" /\ last.outcome = "returned"
    /\ last.out = <<HOME>>
    /\ cwd = HOME

-----------------------------------------------------------------------------
(* C19 *)

\* s is a non-empty string of decimal digits
IsDecimal(s) == Len(s) > 0 /\ \A i \in 1..Len(s) : SubSeq(s, i, i) \in DOMAIN DigitValue

\* C19: a dispatched exit ends the process, with status n for the single
\* decimal argument n and with status 0 for no argument or any other
\* argument; end of input ends it with status 0; after the end nothing is read
\* or executed.
C19_ExitStatus ==
    [][ /\ Ran("exit")
            => /\ pc' = "exited"
               /\ exitStatus' = IF Len(last'.argv) = 2 /\ IsDecimal(last'.argv[2])
                                 THEN int(last'.argv[2]) ELSE 0
        /\ (pc = "reading" /\ pc' = "exited") => exitStatus' = 0
        /\ pc = "exited" => (pc' = "exited" /\ line' = line /\ last' = last) ]_vars

-----------------------------------------------------------------------------
(* C20 *)

\* C20: every call of longest_common_prefix returns, and what it returns is
\* the longest string that is a prefix of every word ("" for the empty
\* list); the function computed in one piece gives the same.
C20_LongestCommonPrefix ==
    /\ [](lcp.pc = "returned"
             => /\ lcp.prefix = LongestCommon(lcp.words)
                /\ IsCommonPrefix(lcp.prefix, lcp.words)
                /\ longest_common_prefix(lcp.words) = LongestCommon(lcp.words))
    /\ <>(lcp.pc = "returned")

\* three words sharing one letter: the prefix was shortened and is not empty
C20_Witness ==
    /\ lcp.pc = "returned"
    /\ Len(lcp.words) = 3
    /\ lcp.prefix = "a"
    /\ lcp.words[1] = "ab"

====
